---- MODULE Spec2Model ----
(***************************************************************************)
(* A model of the IDF 3.0 parser (board/panel and library documents) and   *)
(* of its cross-document reference validation.                             *)
(*                                                                         *)
(* Text is a sequence of atoms.  An atom stands for an indivisible run of  *)
(* characters: "SP" is one space, "NL" one line feed, "QT" one double      *)
(* quote, every other atom is a run of non-whitespace characters (a        *)
(* keyword, a name, a numeric literal).  The parsers are the nom           *)
(* combinator expressions of the source, kept as terms and evaluated by    *)
(* Run, which gives each combinator its nom semantics on atom sequences.   *)
(***************************************************************************)
EXTENDS Integers, Sequences, FiniteSets, TLC

SP == "SP"
NL == "NL"
QT == "QT"

\* Literals accepted by nom's u32 and float parsers.
IntLits == {"0", "1", "3"}
FloatLits == IntLits \cup {"0.0", "1.0", "5.0", "10.0"}

(***************************************************************************)
(* Parser results: IResult, plus the panic a parser body can raise.        *)
(***************************************************************************)
Ok(rest, val) == [st |-> "ok", rest |-> rest, val |-> val, kind |-> "none"]
Err(at, kind) == [st |-> "err", rest |-> at, val |-> <<>>, kind |-> kind]
Panic(at) == [st |-> "panic", rest |-> at, val |-> <<>>, kind |-> "unwrap"]

IsPrefix(t, s) == Len(t) <= Len(s) /\ SubSeq(s, 1, Len(t)) = t
Drop(s, n) == SubSeq(s, n + 1, Len(s))

\* Length of the longest prefix of s made of atoms outside `stop`.
RECURSIVE RunLen(_, _)
RunLen(s, stop) ==
    IF s = <<>> \/ Head(s) \in stop THEN 0 ELSE 1 + RunLen(Tail(s), stop)

\* Length of the longest prefix of s made of whitespace.
RECURSIVE SpaceLen(_)
SpaceLen(s) ==
    IF s = <<>> \/ Head(s) \notin {SP, NL} THEN 0 ELSE 1 + SpaceLen(Tail(s))

(***************************************************************************)
(* Combinator terms.                                                       *)
(***************************************************************************)
tag(t) == [c |-> "tag", t |-> t]
float == [c |-> "float"]
u32 == [c |-> "u32"]
newline == [c |-> "newline"]
multispace0 == [c |-> "multispace0"]
is_not(x) == [c |-> "is_not", x |-> x]
not_line_ending == [c |-> "not_line_ending"]
alt(ps) == [c |-> "alt", ps |-> ps]
tuple(ps) == [c |-> "tuple", ps |-> ps]
terminated(p, q) == [c |-> "terminated", p |-> p, q |-> q]
delimited(a, p, b) == [c |-> "delimited", a |-> a, p |-> p, b |-> b]
many0(p) == [c |-> "many", p |-> p, min |-> 0, max |-> -1]
many1(p) == [c |-> "many", p |-> p, min |-> 1, max |-> -1]
many_m_n(m, n, p) == [c |-> "many", p |-> p, min |-> m, max |-> n]
map(p, f) == [c |-> "map", p |-> p, f |-> f]

\* primitives.rs: ws wraps a parser in leading and trailing multispace0.
ws(inner) == delimited(multispace0, inner, multispace0)

\* primitives.rs: ws_separated! wraps every parser of a tuple in ws.
ws_separated(ps) == tuple([i \in DOMAIN ps |-> ws(ps[i])])

\* As section, without the end literal.
section_unterminated(K, parser) ==
    delimited(ws(tag(<<".", K>>)), parser, multispace0)

\* primitives.rs: section! delimits a parser by `.K` and `.END_K`.
section(K, parser) ==
    delimited(ws(tag(<<".", K>>)), parser, ws(tag(<<".END_", K>>)))

\* The double-quote-delimited string of the string-field rule.
quote_string == [c |-> "quote_string"]

(***************************************************************************)
(* Values built from the parsed tuples.  Convert returns the value and     *)
(* whether building it panics.                                             *)
(***************************************************************************)
Built(v) == [panic |-> FALSE, val |-> v]

\* str::parse::<u32>() of a matched run of text.
ParsesAsU32(text) == Len(text) = 1 /\ text[1] \in IntLits

\* headers.rs: the tuple header_metadata returns; both unwraps are here.
HeaderMetadataValue(v) ==
    [panic |-> ~ParsesAsU32(v[2]) \/ ~ParsesAsU32(v[5]),
     val |-> [file_type |-> v[1], version |-> v[2], system_id |-> v[3],
              date |-> v[4], file_version |-> v[5]]]

BoardPanelHeaderValue(v) ==
    Built([file_type |-> v[1].file_type, version |-> v[1].version,
           system_id |-> v[1].system_id, date |-> v[1].date,
           file_version |-> v[1].file_version,
           board_name |-> v[2][1], units |-> v[2][2]])

PointValue(v) == Built([loop_label |-> v[1], x |-> v[2], y |-> v[3], angle |-> v[4]])

BoardPanelOutlineValue(v) == Built([owner |-> v[1], thickness |-> v[2], outline |-> v[3]])

OtherOutlineValue(v) ==
    Built([owner |-> v[1], id |-> v[2], extrude_thickness |-> v[3],
           board_side |-> v[4], outline |-> v[5]])

RoutingOutlineValue(v) == Built([owner |-> v[1], routing_layers |-> v[2], outline |-> v[3]])

RoutingKeepoutValue(v) == Built([owner |-> v[1], routing_layers |-> v[2], outline |-> v[3]])

PlacementOutlineValue(v) ==
    Built([owner |-> v[1], board_side |-> v[2], outline_height |-> v[3], outline |-> v[4]])

ViaKeepoutValue(v) == Built([owner |-> v[1], outline |-> v[2]])

PlacementKeepoutValue(v) ==
    Built([owner |-> v[1], board_side |-> v[2], keepout_height |-> v[3], outline |-> v[4]])

PlacementGroupAreaValue(v) ==
    Built([owner |-> v[1], board_side |-> v[2], group_name |-> v[3], outline |-> v[4]])

HoleValue(v) ==
    Built([diameter |-> v[1], x |-> v[2], y |-> v[3], plating_style |-> v[4],
           associated_part |-> v[5], hole_type |-> v[6], owner |-> v[7]])

NoteValue(v) ==
    Built([x |-> v[1], y |-> v[2], text_height |-> v[3],
           test_string_physical_length |-> v[4], text |-> v[5]])

ComponentPlacementValue(v) ==
    Built([package_name |-> v[1], part_number |-> v[2], reference_designator |-> v[3],
           x |-> v[4], y |-> v[5], mounting_offset |-> v[6], rotation_angle |-> v[7],
           board_side |-> v[8], placement_status |-> v[9]])

\* components.rs: (prop_name, value) of one PROP record.
ElectricalPropertyValue(v) == Built(<<v[2], v[3]>>)

\* As ElectricalPropertiesValue, an earlier pair keeping its value.
ElectricalPropertiesValue_first_wins(v) ==
    Built([n \in {v[i][1] : i \in DOMAIN v} |->
              LET first == CHOOSE i \in DOMAIN v :
                               /\ v[i][1] = n
                               /\ \A j \in DOMAIN v : v[j][1] = n => i <= j
              IN  v[first][2]])

\* components.rs: the (name, value) pairs collected into a HashMap in input
\* order, a later pair replacing an earlier one of the same name.
ElectricalPropertiesValue(v) ==
    Built([n \in {v[i][1] : i \in DOMAIN v} |->
              LET last == CHOOSE i \in DOMAIN v :
                              /\ v[i][1] = n
                              /\ \A j \in DOMAIN v : v[j][1] = n => j <= i
              IN  v[last][2]])

ElectricalComponentValue(v) ==
    Built([geometry_name |-> v[1], part_number |-> v[2], units |-> v[3],
           height |-> v[4], outline |-> v[5], properties |-> v[6]])

MechanicalComponentValue(v) ==
    Built([geometry_name |-> v[1], part_number |-> v[2], units |-> v[3],
           height |-> v[4], outline |-> v[5]])

Convert(f, v) ==
    CASE f = "header_metadata" -> HeaderMetadataValue(v)
      [] f = "BoardPanelHeader" -> BoardPanelHeaderValue(v)
      [] f = "Point" -> PointValue(v)
      [] f = "BoardPanelOutline" -> BoardPanelOutlineValue(v)
      [] f = "OtherOutline" -> OtherOutlineValue(v)
      [] f = "RoutingOutline" -> RoutingOutlineValue(v)
      [] f = "PlacementOutline" -> PlacementOutlineValue(v)
      [] f = "RoutingKeepout" -> RoutingKeepoutValue(v)
      [] f = "ViaKeepout" -> ViaKeepoutValue(v)
      [] f = "PlacementKeepout" -> PlacementKeepoutValue(v)
      [] f = "PlacementGroupArea" -> PlacementGroupAreaValue(v)
      [] f = "Hole" -> HoleValue(v)
      [] f = "Note" -> NoteValue(v)
      [] f = "ComponentPlacement" -> ComponentPlacementValue(v)
      [] f = "electrical_property" -> ElectricalPropertyValue(v)
      [] f = "ElectricalProperties" -> ElectricalPropertiesValue(v)
      [] f = "ElectricalComponent" -> ElectricalComponentValue(v)
      [] f = "MechanicalComponent" -> MechanicalComponentValue(v)

(***************************************************************************)
(* Run(p, s): the result of parser term p on text s.                       *)
(***************************************************************************)
RECURSIVE Run(_, _), RunTuple(_, _, _, _), RunAlt(_, _, _), RunMany(_, _, _, _)

\* The element of a set of one element.  A parser's result is bound as such
\* an element, so that it is computed once however often it is used.
The(S) == CHOOSE x \in S : TRUE

\* A tuple of parsers: each runs on what the previous one left.
RunTuple(ps, i, s, acc) ==
    IF i > Len(ps) THEN Ok(s, acc)
    ELSE The({IF r.st # "ok" THEN r
              ELSE RunTuple(ps, i + 1, r.rest, Append(acc, r.val)) :
              r \in {Run(ps[i], s)}})

\* alt: the first alternative that succeeds; the last error otherwise.
RunAlt(ps, i, s) ==
    The({IF r.st = "err" /\ i < Len(ps) THEN RunAlt(ps, i + 1, s) ELSE r :
         r \in {Run(ps[i], s)}})

\* many0, many1, many_m_n: n elements parsed so far into acc.
RunMany(p, s, n, acc) ==
    IF p.max >= 0 /\ n >= p.max THEN Ok(s, acc)
    ELSE The({CASE r.st = "panic" -> r
                [] r.st = "err" -> IF n < p.min THEN r ELSE Ok(s, acc)
                [] r.st = "ok" ->
                     IF Len(r.rest) = Len(s) /\ ~(p.min = 1 /\ p.max = -1 /\ n = 0)
                     THEN Err(s, "Many")
                     ELSE RunMany(p, r.rest, n + 1, Append(acc, r.val)) :
              r \in {Run(p.p, s)}})

Run(p, s) ==
    CASE p.c = "tag" ->
           IF IsPrefix(p.t, s) THEN Ok(Drop(s, Len(p.t)), p.t) ELSE Err(s, "Tag")
      [] p.c = "float" ->
           IF s # <<>> /\ Head(s) \in FloatLits THEN Ok(Tail(s), Head(s)) ELSE Err(s, "Float")
      [] p.c = "u32" ->
           IF s # <<>> /\ Head(s) \in IntLits THEN Ok(Tail(s), Head(s)) ELSE Err(s, "Digit")
      [] p.c = "newline" ->
           IF s # <<>> /\ Head(s) = NL THEN Ok(Tail(s), NL) ELSE Err(s, "Char")
      [] p.c = "multispace0" ->
           LET n == SpaceLen(s) IN Ok(Drop(s, n), SubSeq(s, 1, n))
      [] p.c = "is_not" ->
           LET n == RunLen(s, p.x)
           IN IF n = 0 THEN Err(s, "IsNot") ELSE Ok(Drop(s, n), SubSeq(s, 1, n))
      [] p.c = "not_line_ending" ->
           LET n == RunLen(s, {NL}) IN Ok(Drop(s, n), SubSeq(s, 1, n))
      [] p.c = "quote_string" ->
           IF s = <<>> \/ Head(s) # QT THEN Err(s, "Char")
           ELSE LET n == RunLen(Tail(s), {QT})
                IN IF n + 1 >= Len(s) THEN Err(Drop(s, n + 1), "Char")
                   ELSE Ok(Drop(s, n + 2), SubSeq(s, 2, n + 1))
      [] p.c = "alt" -> RunAlt(p.ps, 1, s)
      [] p.c = "tuple" -> RunTuple(p.ps, 1, s, <<>>)
      [] p.c = "terminated" ->
           The({IF r.st # "ok" THEN r
                ELSE The({IF e.st # "ok" THEN e ELSE Ok(e.rest, r.val) :
                          e \in {Run(p.q, r.rest)}}) :
                r \in {Run(p.p, s)}})
      [] p.c = "delimited" ->
           The({IF a.st # "ok" THEN a
                ELSE The({IF r.st # "ok" THEN r
                          ELSE The({IF b.st # "ok" THEN b ELSE Ok(b.rest, r.val) :
                                    b \in {Run(p.b, r.rest)}}) :
                          r \in {Run(p.p, a.rest)}}) :
                a \in {Run(p.a, s)}})
      [] p.c = "many" -> RunMany(p, s, 0, <<>>)
      [] p.c = "map" ->
           The({IF r.st # "ok" THEN r
                ELSE The({IF v.panic THEN Panic(s) ELSE Ok(r.rest, v.val) :
                          v \in {Convert(p.f, r.val)}}) :
                r \in {Run(p.p, s)}})

(***************************************************************************)
(* The grammar: one term per parser function of the source.                *)
(***************************************************************************)
owner == alt(<<tag(<<"ECAD">>), tag(<<"MCAD">>), tag(<<"UNOWNED">>)>>)

\* point.rs: every field of a point is wrapped in ws.
point == map(ws_separated(<<u32, float, float, float>>), "Point")

header_metadata ==
    map(tuple(<<ws(alt(<<tag(<<"PANEL_FILE">>), tag(<<"LIBRARY_FILE">>),
                         tag(<<"BOARD_FILE">>)>>)),
                ws(terminated(tag(<<"3">>), tag(<<".0">>))),
                ws(alt(<<quote_string, is_not({SP})>>)),
                ws(is_not({SP})),
                ws(not_line_ending)>>),
        "header_metadata")

parse_board_or_panel_header ==
    map(section("HEADER",
                tuple(<<header_metadata,
                        ws_separated(<<is_not({SP}),
                                       alt(<<tag(<<"THOU">>), tag(<<"MM">>)>>)>>)>>)),
        "BoardPanelHeader")

interior_contents ==
    tuple(<<terminated(owner, newline),
            terminated(float, newline),
            many1(terminated(point, newline))>>)

parse_board_panel_outline ==
    map(ws(alt(<<section("BOARD_OUTLINE", interior_contents),
                 section("PANEL_OUTLINE", interior_contents)>>)),
        "BoardPanelOutline")

parse_other_outline ==
    map(section("OTHER_OUTLINE",
                tuple(<<terminated(owner, newline),
                        terminated(is_not({SP}), tag(<<SP>>)),
                        terminated(float, tag(<<SP>>)),
                        terminated(is_not({NL}), newline),
                        many1(terminated(point, newline))>>)),
        "OtherOutline")

parse_routing_outline ==
    map(section("ROUTE_OUTLINE",
                tuple(<<terminated(owner, newline),
                        terminated(is_not({NL}), newline),
                        many1(terminated(point, newline))>>)),
        "RoutingOutline")

parse_placement_outline ==
    map(section("PLACE_OUTLINE",
                tuple(<<terminated(owner, newline),
                        terminated(is_not({SP}), tag(<<SP>>)),
                        terminated(float, newline),
                        many1(terminated(point, newline))>>)),
        "PlacementOutline")

parse_routing_keepout ==
    map(section("ROUTE_KEEPOUT",
                tuple(<<terminated(owner, newline),
                        terminated(is_not({NL}), newline),
                        many1(terminated(point, newline))>>)),
        "RoutingKeepout")

parse_via_keepout ==
    map(section("VIA_KEEPOUT",
                tuple(<<terminated(owner, newline),
                        many1(terminated(point, newline))>>)),
        "ViaKeepout")

parse_placement_keepout ==
    map(section("PLACE_KEEPOUT",
                tuple(<<terminated(owner, newline),
                        terminated(is_not({SP}), tag(<<SP>>)),
                        terminated(float, newline),
                        many1(terminated(point, newline))>>)),
        "PlacementKeepout")

parse_placement_group_area ==
    map(section("PLACE_REGION",
                tuple(<<terminated(owner, newline),
                        terminated(is_not({SP}), tag(<<SP>>)),
                        terminated(is_not({NL}), newline),
                        many1(terminated(point, newline))>>)),
        "PlacementGroupArea")

drilled_hole ==
    map(ws_separated(<<float, float, float,
                       alt(<<tag(<<"PTH">>), tag(<<"NPTH">>)>>),
                       is_not({SP}),
                       alt(<<tag(<<"PIN">>), tag(<<"VIA">>), tag(<<"MTG">>), tag(<<"TOOL">>)>>),
                       owner>>),
        "Hole")

\* drilled_holes.rs: the start literal includes the line feed.
parse_drilled_holes_section ==
    delimited(ws(tag(<<".", "DRILLED_HOLES", NL>>)),
              many1(drilled_hole),
              ws(tag(<<".END_", "DRILLED_HOLES">>)))

note == map(ws_separated(<<float, float, float, float, quote_string>>), "Note")

\* As parse_notes_section, with zero or more notes.
parse_notes_section_many0 == section("NOTES", many0(ws(note)))

parse_notes_section == section("NOTES", many1(ws(note)))

component_placement ==
    map(ws_separated(<<is_not({SP}), is_not({SP}), not_line_ending,
                       float, float, float, float,
                       alt(<<tag(<<"TOP">>), tag(<<"BOTTOM">>)>>),
                       alt(<<tag(<<"PLACED">>), tag(<<"UNPLACED">>),
                             tag(<<"ECAD">>), tag(<<"MCAD">>)>>)>>),
        "ComponentPlacement")

parse_component_placement_section == section("PLACEMENT", ws(many0(component_placement)))

(***************************************************************************)
(* board.rs: parse_board_or_panel.  The outcome is Ok with the document,   *)
(* Err with the unparsed remainder, or Panic.                              *)
(***************************************************************************)
NoDocument == [none |-> TRUE]
Returned(doc) == [st |-> "Ok", doc |-> doc, rest |-> <<>>]
Failed(rest) == [st |-> "Err", doc |-> NoDocument, rest |-> rest]
Aborted == [st |-> "Panic", doc |-> NoDocument, rest |-> <<>>]

\* The twelve parsers composed in sequence at board.rs:50-67.
board_panel_sections ==
    tuple(<<parse_board_or_panel_header,
            parse_board_panel_outline,
            many0(parse_other_outline),
            many0(parse_routing_outline),
            many0(parse_placement_outline),
            many0(parse_routing_keepout),
            many0(parse_via_keepout),
            many0(parse_placement_keepout),
            many0(parse_placement_group_area),
            parse_drilled_holes_section,
            many_m_n(0, 1, parse_notes_section),
            parse_component_placement_section>>)

\* board.rs:71-81: the notes of the zero or one parsed .NOTES sections.
unwrap_notes(wrapped_notes) ==
    IF Len(wrapped_notes) = 1 THEN wrapped_notes[1] ELSE <<>>

\* board.rs:69-106: r is the result of the sequence of section parsers.
board_panel_result(r) ==
    \* .unwrap() on the sequence's result
    IF r.st # "ok" THEN Aborted
    \* panic!("Expected either 1 or no notes sections ...")
    ELSE IF Len(r.val[11]) > 1 THEN Aborted
    ELSE IF r.rest # <<>> THEN Failed(r.rest)
    ELSE Returned([header |-> r.val[1], outline |-> r.val[2],
                   other_outlines |-> r.val[3], routing_outlines |-> r.val[4],
                   placement_outlines |-> r.val[5], routing_keepouts |-> r.val[6],
                   via_keepouts |-> r.val[7], placement_keepouts |-> r.val[8],
                   placement_group_areas |-> r.val[9], drilled_holes |-> r.val[10],
                   notes |-> unwrap_notes(r.val[11]),
                   component_placements |-> r.val[12]])

parse_board_or_panel(input) == board_panel_result(Run(board_panel_sections, input))

(***************************************************************************)
(* components.rs, headers.rs and library.rs: the library document.         *)
(***************************************************************************)
electrical_property ==
    map(ws_separated(<<tag(<<"PROP">>), is_not({SP}), float>>), "electrical_property")

electrical_properties == map(many0(electrical_property), "ElectricalProperties")

electrical_component ==
    map(section("ELECTRICAL",
                ws_separated(<<is_not({SP}),
                               alt(<<quote_string, is_not({SP})>>),
                               is_not({SP}),
                               float,
                               many0(ws(point)),
                               electrical_properties>>)),
        "ElectricalComponent")

mechanical_component ==
    map(section("MECHANICAL",
                ws_separated(<<is_not({SP}), is_not({SP}), is_not({SP}),
                               float,
                               many0(ws(point))>>)),
        "MechanicalComponent")

\* As library_header_result, without the check of the file type.
library_header_result_any_file_type(input, r) ==
    IF r.st # "ok" THEN r
    ELSE Ok(r.rest, [version |-> r.val.version, system_id |-> r.val.system_id,
                     date |-> r.val.date, file_version |-> r.val.file_version])

\* headers.rs:117-127: the file type check on the parsed header r.
library_header_result(input, r) ==
    IF r.st # "ok" THEN r
    ELSE IF r.val.file_type # <<"LIBRARY_FILE">> THEN Err(input, "Tag")
    ELSE Ok(r.rest, [version |-> r.val.version, system_id |-> r.val.system_id,
                     date |-> r.val.date, file_version |-> r.val.file_version])

parse_library_header(input) ==
    library_header_result(input, Run(section("HEADER", header_metadata), input))

\* str::starts_with
starts_with(body, literal) == IsPrefix(literal, body)

\* library.rs:22-36: the two repetitions, in the order the body starts with.
library_sections(body) ==
    IF starts_with(body, <<".", "ELECTRICAL">>)
    THEN Run(tuple(<<many0(electrical_component), many0(mechanical_component)>>), body)
    ELSE Run(tuple(<<many0(mechanical_component), many0(electrical_component)>>), body)

\* As library_result, with the two lists kept in the order they were parsed.
library_result_in_parse_order(header, electrical_first, r) ==
    IF r.st = "panic" THEN Aborted
    ELSE IF r.st = "err" THEN Failed(r.rest)
    ELSE IF r.rest # <<>> THEN Failed(r.rest)
    ELSE Returned([header |-> header,
                   electrical_components |-> r.val[1],
                   mechanical_components |-> r.val[2]])

\* library.rs:38-52: the Library, returned when nothing remains.
library_result(header, electrical_first, r) ==
    IF r.st = "panic" THEN Aborted
    ELSE IF r.st = "err" THEN Failed(r.rest)
    ELSE IF r.rest # <<>> THEN Failed(r.rest)
    ELSE Returned([header |-> header,
                   electrical_components |-> IF electrical_first THEN r.val[1] ELSE r.val[2],
                   mechanical_components |-> IF electrical_first THEN r.val[2] ELSE r.val[1]])

\* As library_body, without the check of what the body starts with.
library_body_any_start(h) ==
    IF h.st = "panic" THEN Aborted
    ELSE IF h.st = "err" THEN Failed(h.rest)
    ELSE library_result(h.val, starts_with(h.rest, <<".", "ELECTRICAL">>),
                        library_sections(h.rest))

\* library.rs:21-36: what follows the header h.
library_body(h) ==
    IF h.st = "panic" THEN Aborted
    ELSE IF h.st = "err" THEN Failed(h.rest)
    ELSE IF /\ ~starts_with(h.rest, <<".", "ELECTRICAL">>)
            /\ ~starts_with(h.rest, <<".", "MECHANICAL">>)
    THEN Failed(h.rest)
    ELSE library_result(h.val, starts_with(h.rest, <<".", "ELECTRICAL">>),
                        library_sections(h.rest))

parse_library(input) == library_body(parse_library_header(input))

(***************************************************************************)
(* validation.rs: the cross-document checks.  A HashSet is iterated in an  *)
(* order the program does not fix, so a failing check may name any element *)
(* of the set that has no match: each check is the set of its possible     *)
(* results.                                                                *)
(***************************************************************************)
Valid == [st |-> "Ok", name |-> <<>>]
ReferenceError(name) == [st |-> "Err", name |-> name]
NotChecked == [st |-> "none", name |-> <<>>]

Elements(seq) == {seq[i] : i \in DOMAIN seq}

\* As board_components, but also skipping placements marked NOREFDES.
board_components_skipping_norefdes(b) ==
    {c.package_name : c \in {c \in Elements(b.component_placements) :
                                 c.reference_designator \notin {<<"BOARD">>, <<"NOREFDES">>}}}

\* As board_components, looking at the first placement only.
board_components_first_only(b) ==
    {c.package_name : c \in {c \in {b.component_placements[i] :
                                        i \in DOMAIN b.component_placements \cap {1}} :
                                 c.reference_designator # <<"BOARD">>}}

\* validation.rs:32-40
board_components(b) ==
    {c.package_name : c \in {c \in Elements(b.component_placements) :
                                 c.reference_designator # <<"BOARD">>}}

\* validation.rs:42-49
library_components(lib) ==
    {c.geometry_name : c \in Elements(lib.electrical_components)}
        \cup {c.geometry_name : c \in Elements(lib.mechanical_components)}

\* As library_references_valid, with the membership test not negated.
library_references_valid_not_negated(lib, b) ==
    LET missing == board_components(b) \cap library_components(lib)
    IN  IF missing = {} THEN {Valid} ELSE {ReferenceError(c) : c \in missing}

library_references_valid(lib, b) ==
    LET missing == board_components(b) \ library_components(lib)
    IN  IF missing = {} THEN {Valid} ELSE {ReferenceError(c) : c \in missing}

\* validation.rs:90-97
referenced_boards(p) ==
    {c.package_name : c \in {c \in Elements(p.component_placements) :
                                 c.reference_designator = <<"BOARD">>}}

\* As panel_references_valid, requiring every board to carry the name.
panel_references_valid_all(p, bs) ==
    LET missing == {r \in referenced_boards(p) :
                        ~\A i \in DOMAIN bs : bs[i].header.board_name = r}
    IN  IF missing = {} THEN {Valid} ELSE {ReferenceError(r) : r \in missing}

panel_references_valid(p, bs) ==
    LET missing == {r \in referenced_boards(p) :
                        ~\E i \in DOMAIN bs : bs[i].header.board_name = r}
    IN  IF missing = {} THEN {Valid} ELSE {ReferenceError(r) : r \in missing}


(***************************************************************************)
(* Input texts.  Each section text is well-formed by the section's own     *)
(* unit test: the texts follow the test inputs of outlines.rs,             *)
(* drilled_holes.rs, notes.rs, component_placement.rs and headers.rs and   *)
(* the end-to-end text of the specification, one record per line.          *)
(***************************************************************************)
PointLine(label, x, y) == <<label, SP, x, SP, y, SP, "0.0", NL>>

TwoPoints == PointLine("0", "0.0", "0.0") \o PointLine("0", "1.0", "1.0")

HeaderText(file_type, name) ==
    <<".", "HEADER", NL,
      file_type, SP, "3", ".0", SP, "Gen", SP, "date", SP, "1", NL,
      name, SP, "THOU", NL,
      ".END_", "HEADER", NL>>

PrimaryOutlineText(K) ==
    <<".", K, SP, "MCAD", NL, "10.0", NL>> \o TwoPoints \o <<".END_", K, NL>>

OtherOutlineText ==
    <<".", "OTHER_OUTLINE", SP, "MCAD", NL, "my_outline", SP, "10.0", SP, "TOP", NL>>
        \o TwoPoints \o <<".END_", "OTHER_OUTLINE", NL>>

LayerOutlineText(K) ==
    <<".", K, SP, "ECAD", NL, "ALL", NL>> \o TwoPoints \o <<".END_", K, NL>>

SideHeightOutlineText(K) ==
    <<".", K, SP, "MCAD", NL, "TOP", SP, "10.0", NL>> \o TwoPoints \o <<".END_", K, NL>>

ViaKeepoutText ==
    <<".", "VIA_KEEPOUT", SP, "ECAD", NL>> \o TwoPoints \o <<".END_", "VIA_KEEPOUT", NL>>

PlaceRegionText ==
    <<".", "PLACE_REGION", SP, "UNOWNED", NL, "TOP", SP, "grp", NL>>
        \o TwoPoints \o <<".END_", "PLACE_REGION", NL>>

HoleLine == <<"10.0", SP, "5.0", SP, "5.0", SP, "PTH", SP, "BOARD", SP, "VIA", SP, "ECAD", NL>>

RECURSIVE Repeat(_, _)
Repeat(line, n) == IF n = 0 THEN <<>> ELSE line \o Repeat(line, n - 1)

DrilledHolesText(n) ==
    <<".", "DRILLED_HOLES", NL>> \o Repeat(HoleLine, n) \o <<".END_", "DRILLED_HOLES", NL>>

NoteLine == <<"1.0", SP, "1.0", SP, "5.0", SP, "10.0", SP, QT, "see", SP, "latch", QT, NL>>

NotesText(n) == <<".", "NOTES", NL>> \o Repeat(NoteLine, n) \o <<".END_", "NOTES", NL>>

\* A two-line placement record.
PlacementRecord(package, refdes) ==
    <<package, SP, "pn", SP, refdes, NL,
      "0.0", SP, "0.0", SP, "0.0", SP, "0.0", SP, "TOP", SP, "PLACED", NL>>

RECURSIVE PlacementRecords(_)
PlacementRecords(ps) ==
    IF ps = <<>> THEN <<>>
    ELSE PlacementRecord(Head(ps)[1], Head(ps)[2]) \o PlacementRecords(Tail(ps))

\* ps: the (package name, reference designator) pairs of the records.
PlacementText(ps) ==
    <<".", "PLACEMENT", NL>> \o PlacementRecords(ps) \o <<".END_", "PLACEMENT", NL>>

LibraryHeaderText(file_type) ==
    <<".", "HEADER", NL,
      file_type, SP, "3", ".0", SP, "Gen", SP, "date", SP, "1", NL,
      ".END_", "HEADER", NL>>

\* A component section of keyword K (ELECTRICAL or MECHANICAL).
ComponentText(K, geometry_name) ==
    <<".", K, NL, geometry_name, SP, "pn", SP, "THOU", SP, "10.0", NL>>
        \o PointLine("0", "0.0", "0.0") \o <<".END_", K, NL>>

(***************************************************************************)
(* Documents as values, for the checks that take parsed documents.         *)
(***************************************************************************)
Placement(package, refdes) ==
    [package_name |-> package, part_number |-> <<"pn">>,
     reference_designator |-> refdes,
     x |-> "0.0", y |-> "0.0", mounting_offset |-> "0.0", rotation_angle |-> "0.0",
     board_side |-> <<"TOP">>, placement_status |-> <<"PLACED">>]

Placements(ps) == [i \in DOMAIN ps |-> Placement(ps[i][1], ps[i][2])]

ParsedPoint(label, x, y) == [loop_label |-> label, x |-> x, y |-> y, angle |-> "0.0"]

\* The BoardPanel of a board or panel of the given name and placements.
BoardDocument(file_type, name, ps) ==
    [header |-> [file_type |-> <<file_type>>, version |-> <<"3">>,
                 system_id |-> <<"Gen">>, date |-> <<"date">>,
                 file_version |-> <<"1">>, board_name |-> name,
                 units |-> <<"THOU">>],
     outline |-> [owner |-> <<"MCAD">>, thickness |-> "10.0",
                  outline |-> <<ParsedPoint("0", "0.0", "0.0"),
                                ParsedPoint("0", "1.0", "1.0")>>],
     other_outlines |-> <<>>, routing_outlines |-> <<>>,
     placement_outlines |-> <<>>, routing_keepouts |-> <<>>,
     via_keepouts |-> <<>>, placement_keepouts |-> <<>>,
     placement_group_areas |-> <<>>,
     drilled_holes |-> <<[diameter |-> "10.0", x |-> "5.0", y |-> "5.0",
                          plating_style |-> <<"PTH">>, associated_part |-> <<"BOARD">>,
                          hole_type |-> <<"VIA">>, owner |-> <<"ECAD">>]>>,
     notes |-> <<>>,
     component_placements |-> Placements(ps)]

ElectricalDocument(name) ==
    [geometry_name |-> name, part_number |-> <<"pn">>, units |-> <<"THOU">>,
     height |-> "10.0", outline |-> <<ParsedPoint("0", "0.0", "0.0")>>,
     properties |-> <<>>]

MechanicalDocument(name) ==
    [geometry_name |-> name, part_number |-> <<"pn">>, units |-> <<"THOU">>,
     height |-> "10.0", outline |-> <<ParsedPoint("0", "0.0", "0.0")>>]

\* The Library whose electrical and mechanical components have these names.
LibraryDocument(electrical, mechanical) ==
    [header |-> [version |-> <<"3">>, system_id |-> <<"Gen">>,
                 date |-> <<"date">>, file_version |-> <<"1">>],
     electrical_components |-> [i \in DOMAIN electrical |-> ElectricalDocument(electrical[i])],
     mechanical_components |-> [i \in DOMAIN mechanical |-> MechanicalDocument(mechanical[i])]]

(***************************************************************************)
(* Bounds of the inputs.                                                   *)
(***************************************************************************)
MaxSections == 4
MaxHoles == 1
MaxPlacements == 2
MaxComponents == 1
MaxBoards == 2

\* Sequences over S of length at most n.
SeqsUpTo(S, n) == UNION {[1..k -> S] : k \in 0..n}

Names == {<<"a">>, <<"b">>, <<"c">>}
RefDes == {<<"BOARD">>, <<"NOREFDES">>, <<"C1">>}

(***************************************************************************)
(* State.                                                                  *)
(***************************************************************************)
VARIABLES
    sections,   \* the sections the input text is made of, in order
    holes,      \* hole records in each .DRILLED_HOLES section of the input
    trailing,   \* text after the last section of the input
    shape,      \* what a structured input text was written from, if it was
    input,      \* the text given to parse_board_or_panel or parse_library
    outcome,    \* what the parse returned
    scan,       \* how far a parse followed parser by parser has come
    library,    \* a parsed Library
    board,      \* a parsed board
    panel,      \* a parsed panel
    boards,     \* parsed boards
    verdict,    \* what the reference check returned
    panel_file,    \* parse_assembly's panel file, if any
    library_file,  \* parse_assembly's library file
    board_files,   \* parse_assembly's board files
    pc,            \* the statement parse_assembly is at
    result         \* what parse_assembly returned

vars == <<sections, holes, trailing, shape, input, outcome, scan, library, board, panel, boards, verdict,
          panel_file, library_file, board_files, pc, result>>

NotRun == [st |-> "none", doc |-> NoDocument, rest |-> <<>>]

text_vars == <<sections, holes, trailing, shape, input, outcome, scan>>
document_vars == <<library, board, panel, boards, verdict>>
assembly_vars == <<panel_file, library_file, board_files, pc, result>>

NoFile == [none |-> TRUE]
NoShape == [none |-> TRUE]
NoScan == [none |-> TRUE]
NoResult == [st |-> "none", why |-> "none", board |-> 0, name |-> <<>>]

NoAssembly ==
    /\ panel_file = NoFile
    /\ library_file = NoFile
    /\ board_files = <<>>
    /\ pc = "idle"
    /\ result = NoResult

NoText ==
    /\ sections = <<>>
    /\ holes = 0
    /\ trailing = <<>>
    /\ shape = NoShape
    /\ input = <<>>
    /\ outcome = NotRun
    /\ scan = NoScan

NoDocuments ==
    /\ library = NoDocument
    /\ board = NoDocument
    /\ panel = NoDocument
    /\ boards = <<>>
    /\ verdict = NotChecked

(***************************************************************************)
(* The reference checks applied to parsed documents.                       *)
(***************************************************************************)
PlacementLists == SeqsUpTo(Names \X RefDes, MaxPlacements)

InitLibraryRefs ==
    /\ NoText
    /\ NoAssembly
    /\ \E e \in SeqsUpTo(Names, MaxComponents), m \in SeqsUpTo(Names, MaxComponents) :
           library = LibraryDocument(e, m)
    /\ \E ps \in PlacementLists : board = BoardDocument("BOARD_FILE", <<"a">>, ps)
    /\ panel = NoDocument
    /\ boards = <<>>
    /\ verdict = NotChecked

CheckLibraryReferences ==
    /\ board # NoDocument
    /\ verdict = NotChecked
    /\ verdict' \in library_references_valid(library, board)
    /\ UNCHANGED <<library, board, panel, boards>>
    /\ UNCHANGED text_vars
    /\ UNCHANGED assembly_vars

SpecLibraryRefs == InitLibraryRefs /\ [][CheckLibraryReferences]_vars

InitPanelRefs ==
    /\ NoText
    /\ NoAssembly
    /\ library = NoDocument
    /\ board = NoDocument
    /\ \E ps \in PlacementLists : panel = BoardDocument("PANEL_FILE", <<"p">>, ps)
    /\ \E ns \in SeqsUpTo(Names, MaxBoards) :
           boards = [i \in DOMAIN ns |-> BoardDocument("BOARD_FILE", ns[i], <<>>)]
    /\ verdict = NotChecked

CheckPanelReferences ==
    /\ panel # NoDocument
    /\ verdict = NotChecked
    /\ verdict' \in panel_references_valid(panel, boards)
    /\ UNCHANGED <<library, board, panel, boards>>
    /\ UNCHANGED text_vars
    /\ UNCHANGED assembly_vars

SpecPanelRefs == InitPanelRefs /\ [][CheckPanelReferences]_vars

(***************************************************************************)
(* Properties of the reference checks.                                     *)
(***************************************************************************)
GeometryNames ==
    {library.electrical_components[i].geometry_name :
        i \in DOMAIN library.electrical_components}
    \cup {library.mechanical_components[i].geometry_name :
              i \in DOMAIN library.mechanical_components}

\* The placements of the board that are not sub-board references and whose
\* package has no component of that geometry name in the library.
UnmatchedPlacements ==
    {i \in DOMAIN board.component_placements :
        /\ board.component_placements[i].reference_designator # <<"BOARD">>
        /\ board.component_placements[i].package_name \notin GeometryNames}

\* C4: library_references_valid returns Ok exactly when every placement of
\* the board whose reference designator is not BOARD names a geometry of the
\* library; BOARD placements are never a failure, NOREFDES ones are checked.
C4_LibraryRefsOkIffMatched ==
    verdict.st # "none" => (verdict.st = "Ok" <=> UnmatchedPlacements = {})

\* A failed check whose only unmatched package is on a NOREFDES placement,
\* next to a BOARD placement whose package is not in the library either.
C4_Witness ==
    /\ verdict.st = "Err"
    /\ Len(board.component_placements) = 2
    /\ board.component_placements[1].reference_designator = <<"BOARD">>
    /\ board.component_placements[1].package_name \notin GeometryNames
    /\ board.component_placements[2].reference_designator = <<"NOREFDES">>
    /\ UnmatchedPlacements = {2}

\* The placements of the panel that reference a board no element of boards
\* is named as.
MissingBoards ==
    {i \in DOMAIN panel.component_placements :
        /\ panel.component_placements[i].reference_designator = <<"BOARD">>
        /\ \A j \in DOMAIN boards :
               boards[j].header.board_name # panel.component_placements[i].package_name}

\* C5: panel_references_valid returns Ok exactly when every BOARD placement
\* of the panel names the board_name of at least one board; a failure names
\* a board that is missing; other placements are ignored.
C5_PanelRefsOkIffBoardsPresent ==
    verdict.st # "none" =>
        /\ verdict.st = "Ok" <=> MissingBoards = {}
        /\ verdict.st = "Err" =>
               \E i \in MissingBoards :
                   verdict.name = panel.component_placements[i].package_name

\* A check against two boards of different names that passes although the
\* panel also carries a placement that is not a board reference and whose
\* package names no board.
C5_Witness ==
    /\ verdict.st = "Ok"
    /\ Len(boards) = 2
    /\ boards[1].header.board_name # boards[2].header.board_name
    /\ \E i, k \in DOMAIN panel.component_placements :
           /\ panel.component_placements[i].reference_designator = <<"BOARD">>
           /\ panel.component_placements[k].reference_designator # <<"BOARD">>
           /\ \A j \in DOMAIN boards :
                  boards[j].header.board_name # panel.component_placements[k].package_name

\* C6 as stated: a failed library check names the package of the earliest
\* unmatched placement in the board's placement order.
C6_ErrorNamesFirstUnmatched ==
    verdict.st = "Err" =>
        \E i \in UnmatchedPlacements :
            /\ \A j \in UnmatchedPlacements : i <= j
            /\ verdict.name = board.component_placements[i].package_name

\* C6 amended: a failed library check names the package of some unmatched
\* placement that is not a BOARD reference.
C6_ErrorNamesAnUnmatched ==
    verdict.st = "Err" =>
        \E i \in UnmatchedPlacements :
            verdict.name = board.component_placements[i].package_name

\* A failed check of a board with two different unmatched packages that
\* names the later one.
C6_Witness ==
    /\ verdict.st = "Err"
    /\ UnmatchedPlacements = {1, 2}
    /\ board.component_placements[1].package_name
           # board.component_placements[2].package_name
    /\ verdict.name = board.component_placements[2].package_name


(***************************************************************************)
(* parse_board_or_panel applied to a text made of sections.                *)
(***************************************************************************)
SectionKinds ==
    {"HEADER", "BOARD_OUTLINE", "OTHER_OUTLINE", "ROUTE_OUTLINE", "PLACE_OUTLINE",
     "ROUTE_KEEPOUT", "VIA_KEEPOUT", "PLACE_KEEPOUT", "PLACE_REGION",
     "DRILLED_HOLES", "NOTES", "PLACEMENT"}

\* The text of one section: n hole records in a .DRILLED_HOLES section.
SectionText(kind, n) ==
    CASE kind = "HEADER" -> HeaderText("BOARD_FILE", "brd")
      [] kind = "BOARD_OUTLINE" -> PrimaryOutlineText("BOARD_OUTLINE")
      [] kind = "OTHER_OUTLINE" -> OtherOutlineText
      [] kind = "ROUTE_OUTLINE" -> LayerOutlineText("ROUTE_OUTLINE")
      [] kind = "PLACE_OUTLINE" -> SideHeightOutlineText("PLACE_OUTLINE")
      [] kind = "ROUTE_KEEPOUT" -> LayerOutlineText("ROUTE_KEEPOUT")
      [] kind = "VIA_KEEPOUT" -> ViaKeepoutText
      [] kind = "PLACE_KEEPOUT" -> SideHeightOutlineText("PLACE_KEEPOUT")
      [] kind = "PLACE_REGION" -> PlaceRegionText
      [] kind = "DRILLED_HOLES" -> DrilledHolesText(n)
      [] kind = "NOTES" -> NotesText(1)
      [] kind = "PLACEMENT" -> PlacementText(<<<<"pkg", "C1">>>>)

RECURSIVE DocumentText(_, _)
DocumentText(kinds, n) ==
    IF kinds = <<>> THEN <<>>
    ELSE SectionText(Head(kinds), n) \o DocumentText(Tail(kinds), n)

TrailingTexts == {<<>>, <<"junk", NL>>}

InitBoard ==
    /\ sections \in SeqsUpTo(SectionKinds, MaxSections)
    /\ holes \in 0..MaxHoles
    /\ trailing \in TrailingTexts
    /\ shape = NoShape
    /\ input = DocumentText(sections, holes) \o trailing
    /\ outcome = NotRun
    /\ scan = NoScan
    /\ NoDocuments
    /\ NoAssembly

ParseBoardOrPanel ==
    /\ outcome = NotRun
    /\ outcome' = parse_board_or_panel(input)
    /\ UNCHANGED <<sections, holes, trailing, shape, input, scan>>
    /\ UNCHANGED document_vars
    /\ UNCHANGED assembly_vars

SpecBoard == InitBoard /\ [][ParseBoardOrPanel]_vars

(***************************************************************************)
(* Properties of parse_board_or_panel.                                     *)
(***************************************************************************)
\* The place of a section kind in the order of board.rs:50-67.
Rank(kind) ==
    CASE kind = "HEADER" -> 1
      [] kind = "BOARD_OUTLINE" -> 2
      [] kind = "OTHER_OUTLINE" -> 3
      [] kind = "ROUTE_OUTLINE" -> 4
      [] kind = "PLACE_OUTLINE" -> 5
      [] kind = "ROUTE_KEEPOUT" -> 6
      [] kind = "VIA_KEEPOUT" -> 7
      [] kind = "PLACE_KEEPOUT" -> 8
      [] kind = "PLACE_REGION" -> 9
      [] kind = "DRILLED_HOLES" -> 10
      [] kind = "NOTES" -> 11
      [] kind = "PLACEMENT" -> 12

Count(kinds, kind) == Cardinality({i \in DOMAIN kinds : kinds[i] = kind})

\* HEADER, primary outline, the repeatable sections grouped in their order,
\* DRILLED_HOLES, at most one NOTES, PLACEMENT.
MatchesOrder(kinds) ==
    /\ \A i, j \in DOMAIN kinds : i < j => Rank(kinds[i]) <= Rank(kinds[j])
    /\ \A kind \in {"HEADER", "BOARD_OUTLINE", "DRILLED_HOLES", "PLACEMENT"} :
           Count(kinds, kind) = 1
    /\ Count(kinds, "NOTES") <= 1

\* C1: for a text made of well-formed sections and nothing else, the parse
\* returns a document exactly when the sections are in the fixed order.
C1_DocumentIffOrdered ==
    (outcome.st # "none" /\ holes >= 1 /\ trailing = <<>>) =>
        (outcome.st = "Ok" <=> MatchesOrder(sections))

\* C2: a document is returned only when the whole input was consumed, and
\* text left after .END_PLACEMENT makes the result an error.
C2_TrailingDataIsError ==
    outcome.st # "none" =>
        /\ outcome.st = "Ok" => trailing = <<>>
        /\ (MatchesOrder(sections) /\ holes >= 1 /\ trailing # <<>>) =>
               outcome.st = "Err"

\* C3: every call returns Ok with a document or Err without one; no call
\* aborts.
C3_AlwaysReturns ==
    outcome.st # "none" =>
        \/ outcome.st = "Ok" /\ outcome.doc # NoDocument
        \/ outcome.st = "Err" /\ outcome.doc = NoDocument

\* C10: parse_drilled_holes_section fails on a section without records, and
\* parse_board_or_panel returns an error for a board holding such a section.
C10_EmptyDrilledHolesIsError ==
    /\ Run(parse_drilled_holes_section, DrilledHolesText(0)).st = "err"
    /\ (outcome.st # "none" /\ holes = 0 /\ MatchesOrder(sections)) =>
           outcome.st = "Err"

(***************************************************************************)
(* lib.rs: parse_board_file, parse_library_file and parse_assembly.        *)
(* A file is its path's extension, whether it can be read, and its text.   *)
(***************************************************************************)
Completed(doc) == [st |-> "Ok", doc |-> doc]
FileError(why) == [st |-> "Err", doc |-> NoDocument, why |-> why]
FileAbort == [st |-> "Panic", doc |-> NoDocument, why |-> "panic"]

\* lib.rs:39-42 and 54-57: the parse result r as the file function returns it.
file_result(r) ==
    CASE r.st = "Ok" -> Completed(r.doc)
      [] r.st = "Err" -> FileError("parse")
      [] r.st = "Panic" -> FileAbort

parse_board_file(file) ==
    IF file.ext # "emn" THEN FileError("extension")
    ELSE IF ~file.readable THEN FileError("read")
    ELSE file_result(parse_board_or_panel(file.text))

parse_library_file(file) ==
    IF file.ext # "emp" THEN FileError("extension")
    ELSE IF ~file.readable THEN FileError("read")
    ELSE file_result(parse_library(file.text))

\* lib.rs:79-81: the boards parsed in list order up to the first failure.
RECURSIVE ParseBoardFiles(_, _)
ParseBoardFilesNext(files, parsed, r) ==
    IF r.st = "Ok" THEN ParseBoardFiles(Tail(files), Append(parsed, r.doc))
    ELSE [st |-> r.st, boards |-> parsed, why |-> r.why]

ParseBoardFiles(files, parsed) ==
    IF files = <<>> THEN [st |-> "Ok", boards |-> parsed, why |-> "none"]
    ELSE ParseBoardFilesNext(files, parsed, parse_board_file(Head(files)))

\* lib.rs:83-85: the possible results of checking the boards in list order.
LibraryCheckResults(lib, bs) ==
    LET failing == {i \in DOMAIN bs : Valid \notin library_references_valid(lib, bs[i])}
    IN  IF failing = {} THEN {NoResult}
        ELSE LET first == CHOOSE i \in failing : \A j \in failing : i <= j
             IN  {[st |-> "Err", why |-> "library_reference", board |-> first,
                   name |-> v.name] : v \in library_references_valid(lib, bs[first])}

\* lib.rs:87-89
PanelCheckResults(p, bs) ==
    IF p = NoDocument THEN {NoResult}
    ELSE {IF v = Valid THEN NoResult
          ELSE [st |-> "Err", why |-> "panel_reference", board |-> 0, name |-> v.name] :
              v \in panel_references_valid(p, bs)}

Return(st, why) == [st |-> st, why |-> why, board |-> 0, name |-> <<>>]

(***************************************************************************)
(* The files parse_assembly is called with.                                *)
(***************************************************************************)
AtomPairs(ps) == [i \in DOMAIN ps |-> <<ps[i][1][1], ps[i][2][1]>>]

BoardFileText(file_type, K, name, ps) ==
    HeaderText(file_type, name[1]) \o PrimaryOutlineText(K)
        \o DrilledHolesText(1) \o PlacementText(AtomPairs(ps))

RECURSIVE ComponentTexts(_, _)
ComponentTexts(K, names) ==
    IF names = <<>> THEN <<>>
    ELSE ComponentText(K, Head(names)[1]) \o ComponentTexts(K, Tail(names))

LibraryFileText(electrical, mechanical) ==
    LibraryHeaderText("LIBRARY_FILE")
        \o ComponentTexts("ELECTRICAL", electrical)
        \o ComponentTexts("MECHANICAL", mechanical)

\* A board file of this name and placements; `name` and `placements` record
\* what the text was written from.
BoardFile(ext, readable, name, ps) ==
    [ext |-> ext, readable |-> readable, name |-> name, placements |-> ps,
     text |-> BoardFileText("BOARD_FILE", "BOARD_OUTLINE", name, ps)]

PanelFile(ext, readable, ps) ==
    [ext |-> ext, readable |-> readable, name |-> <<"p">>, placements |-> ps,
     text |-> BoardFileText("PANEL_FILE", "PANEL_OUTLINE", <<"p">>, ps)]

LibraryFile(ext, readable, electrical) ==
    [ext |-> ext, readable |-> readable, electrical |-> electrical,
     text |-> LibraryFileText(electrical, <<>>)]

\* (extension, readable) of the files tried.
BoardFileAccess == {<<"emn", TRUE>>, <<"emn", FALSE>>, <<"emp", TRUE>>}
LibraryFileAccess == {<<"emp", TRUE>>, <<"emn", TRUE>>}

BoardFiles ==
    {BoardFile(a[1], a[2], n, ps) :
        a \in BoardFileAccess, n \in {<<"a">>, <<"b">>},
        ps \in {<<>>, <<<<<<"a">>, <<"C1">>>>>>, <<<<<<"b">>, <<"C1">>>>>>}}

PanelFiles ==
    {PanelFile(a[1], a[2], ps) :
        a \in {<<"emn", TRUE>>, <<"emp", TRUE>>},
        ps \in {<<>>, <<<<<<"a">>, <<"BOARD">>>>>>, <<<<<<"c">>, <<"BOARD">>>>>>}}

LibraryFiles ==
    {LibraryFile(a[1], a[2], e) : a \in LibraryFileAccess, e \in {<<>>, <<<<"a">>>>}}

InitAssembly ==
    /\ NoText
    /\ NoDocuments
    /\ panel_file \in {NoFile} \cup PanelFiles
    /\ library_file \in LibraryFiles
    /\ board_files \in SeqsUpTo(BoardFiles, MaxBoards)
    /\ pc = "panel"
    /\ result = NoResult

\* lib.rs:72-75
ParsePanel ==
    /\ pc = "panel"
    /\ \E r \in {IF panel_file = NoFile THEN Completed(NoDocument)
                ELSE parse_board_file(panel_file)} :
           /\ panel' = r.doc
           /\ pc' = IF r.st = "Ok" THEN "library" ELSE "done"
           /\ result' = IF r.st = "Ok" THEN result ELSE Return(r.st, r.why)
    /\ UNCHANGED <<library, board, boards, verdict>>
    /\ UNCHANGED <<panel_file, library_file, board_files>>
    /\ UNCHANGED text_vars

\* lib.rs:77
ParseLibrary ==
    /\ pc = "library"
    /\ \E r \in {parse_library_file(library_file)} :
           /\ library' = r.doc
           /\ pc' = IF r.st = "Ok" THEN "boards" ELSE "done"
           /\ result' = IF r.st = "Ok" THEN result ELSE Return(r.st, r.why)
    /\ UNCHANGED <<panel, board, boards, verdict>>
    /\ UNCHANGED <<panel_file, library_file, board_files>>
    /\ UNCHANGED text_vars

\* lib.rs:79-81
ParseBoards ==
    /\ pc = "boards"
    /\ \E r \in {ParseBoardFiles(board_files, <<>>)} :
           /\ boards' = r.boards
           /\ pc' = IF r.st = "Ok" THEN "check_library" ELSE "done"
           /\ result' = IF r.st = "Ok" THEN result ELSE Return(r.st, r.why)
    /\ UNCHANGED <<library, board, panel, verdict>>
    /\ UNCHANGED <<panel_file, library_file, board_files>>
    /\ UNCHANGED text_vars

\* lib.rs:83-85
CheckBoards ==
    /\ pc = "check_library"
    /\ \E r \in LibraryCheckResults(library, boards) :
           /\ pc' = IF r = NoResult THEN "check_panel" ELSE "done"
           /\ result' = r
    /\ UNCHANGED document_vars
    /\ UNCHANGED <<panel_file, library_file, board_files>>
    /\ UNCHANGED text_vars

\* lib.rs:87-89
CheckPanel ==
    /\ pc = "check_panel"
    /\ \E r \in PanelCheckResults(panel, boards) :
           /\ pc' = IF r = NoResult THEN "return" ELSE "done"
           /\ result' = r
    /\ UNCHANGED document_vars
    /\ UNCHANGED <<panel_file, library_file, board_files>>
    /\ UNCHANGED text_vars

\* lib.rs:91
ReturnAssembly ==
    /\ pc = "return"
    /\ pc' = "done"
    /\ result' = Return("Ok", "none")
    /\ UNCHANGED document_vars
    /\ UNCHANGED <<panel_file, library_file, board_files>>
    /\ UNCHANGED text_vars

NextAssembly ==
    \/ ParsePanel
    \/ ParseLibrary
    \/ ParseBoards
    \/ CheckBoards
    \/ CheckPanel
    \/ ReturnAssembly

SpecAssembly == InitAssembly /\ [][NextAssembly]_vars

(***************************************************************************)
(* Properties of parse_assembly.                                           *)
(***************************************************************************)
\* Every file given has the right extension and can be read, and the library
\* holds at least one component: every text is a well-formed file.
WellFormedFiles ==
    /\ panel_file # NoFile => panel_file.ext = "emn" /\ panel_file.readable
    /\ library_file.ext = "emp" /\ library_file.readable
    /\ library_file.electrical # <<>>
    /\ \A i \in DOMAIN board_files :
           board_files[i].ext = "emn" /\ board_files[i].readable

\* The panel file places a board that no board file is named as.
PanelFileMissesBoard ==
    /\ panel_file # NoFile
    /\ \E i \in DOMAIN panel_file.placements :
           /\ panel_file.placements[i][2] = <<"BOARD">>
           /\ \A j \in DOMAIN board_files :
                  board_files[j].name # panel_file.placements[i][1]

\* The board files that place a component the library file does not hold.
FailingBoardFiles ==
    {i \in DOMAIN board_files :
        \E k \in DOMAIN board_files[i].placements :
            /\ board_files[i].placements[k][2] # <<"BOARD">>
            /\ \A e \in DOMAIN library_file.electrical :
                   library_file.electrical[e] # board_files[i].placements[k][1]}

\* C7: an Ok result carries boards that pass the library check and a panel
\* that passes the panel check; well-formed files whose panel places a board
\* that is not among the boards give Err.
C7_OkImpliesReferencesValid ==
    pc = "done" =>
        /\ result.st = "Ok" =>
               /\ \A i \in DOMAIN boards :
                      library_references_valid(library, boards[i]) = {Valid}
               /\ panel # NoDocument =>
                      panel_references_valid(panel, boards) = {Valid}
        /\ (WellFormedFiles /\ FailingBoardFiles = {} /\ PanelFileMissesBoard) =>
               result.st = "Err"

\* C8: with well-formed files, of which some board places a component the
\* library does not hold, the result is the library-reference error of the
\* first such board, whether or not the panel check would fail too.
C8_FirstFailingBoardReturned ==
    (pc = "done" /\ WellFormedFiles /\ FailingBoardFiles # {}) =>
        /\ result.st = "Err"
        /\ result.why = "library_reference"
        /\ \A j \in FailingBoardFiles : result.board <= j

\* C9: called with no board files, parse_assembly does not return Ok.
C9_NoBoardsIsNotOk ==
    (pc = "done" /\ board_files = <<>>) => result.st # "Ok"

(***************************************************************************)
(* parse_board_or_panel applied to a board or panel document: a header of  *)
(* either file type, a primary outline of either keyword, one              *)
(* .DRILLED_HOLES section, any number of .NOTES sections and one           *)
(* .PLACEMENT section, with the records of each section numbered.          *)
(***************************************************************************)
MaxNotesSections == 2
MaxNotes == 2

\* The names that tell the records of a section apart, by position.
PositionNames == <<"a", "b", "c", "d">>

RECURSIVE Flatten(_)
Flatten(texts) == IF texts = <<>> THEN <<>> ELSE Head(texts) \o Flatten(Tail(texts))

\* The i-th note line of a .NOTES section.
NoteLineAt(i) ==
    <<"1.0", SP, "1.0", SP, "5.0", SP, "10.0", SP, QT, PositionNames[i], QT, NL>>

\* A .NOTES section of n note lines.
NotesSectionText(n) ==
    <<".", "NOTES", NL>> \o Flatten([i \in 1..n |-> NoteLineAt(i)])
        \o <<".END_", "NOTES", NL>>

\* The placements of a .PLACEMENT section of n records: package by position.
ShapePlacements(n) == [i \in 1..n |-> <<PositionNames[i], "C1">>]

BoardShapeText(sh) ==
    HeaderText(sh.file_type, "brd")
        \o PrimaryOutlineText(sh.outline)
        \o DrilledHolesText(sh.holes)
        \o Flatten([i \in 1..sh.notes_sections |-> NotesSectionText(sh.notes)])
        \o PlacementText(ShapePlacements(sh.placements))

BoardShapes ==
    [file_type : {"BOARD_FILE", "PANEL_FILE"},
     outline : {"BOARD_OUTLINE", "PANEL_OUTLINE"},
     holes : 0..MaxHoles,
     notes_sections : 0..MaxNotesSections,
     notes : 0..MaxNotes,
     placements : 0..MaxPlacements]

InitBoardDocument ==
    /\ sections = <<>>
    /\ holes = 0
    /\ trailing \in TrailingTexts
    /\ shape \in BoardShapes
    /\ input = BoardShapeText(shape) \o trailing
    /\ outcome = NotRun
    /\ scan = NoScan
    /\ NoDocuments
    /\ NoAssembly

ParseBoardDocument ==
    /\ shape # NoShape
    /\ outcome = NotRun
    /\ outcome' = parse_board_or_panel(input)
    /\ UNCHANGED <<sections, holes, trailing, shape, input, scan>>
    /\ UNCHANGED document_vars
    /\ UNCHANGED assembly_vars

SpecBoardDocument == InitBoardDocument /\ [][ParseBoardDocument]_vars

\* The outline keyword is the one of the header's file type.
OutlineOfFileType(sh) ==
    \/ sh.file_type = "BOARD_FILE" /\ sh.outline = "BOARD_OUTLINE"
    \/ sh.file_type = "PANEL_FILE" /\ sh.outline = "PANEL_OUTLINE"

\* Apart from the number of its .NOTES sections the document is well-formed:
\* matching outline keyword, at least one hole, at least one note in a
\* .NOTES section, nothing after .END_PLACEMENT.
WellFormedApartFromNotes ==
    /\ OutlineOfFileType(shape)
    /\ shape.holes >= 1
    /\ shape.notes >= 1
    /\ trailing = <<>>

\* C11: a document with two consecutive .NOTES sections is rejected with an
\* error returned to the caller, and no document is produced.
C11_TwoNotesSectionsIsError ==
    (outcome.st # "none" /\ WellFormedApartFromNotes /\ shape.notes_sections = 2) =>
        outcome.st = "Err" /\ outcome.doc = NoDocument

\* C12: with exactly one .NOTES section of n notes the document's notes are
\* those n notes in input order; with no .NOTES section the parse succeeds
\* with an empty notes list.
C12_NotesOfTheOneSection ==
    (outcome.st # "none" /\ WellFormedApartFromNotes /\ shape.notes_sections <= 1) =>
        /\ outcome.st = "Ok"
        /\ Len(outcome.doc.notes) = shape.notes_sections * shape.notes
        /\ \A i \in DOMAIN outcome.doc.notes :
               outcome.doc.notes[i].text = <<PositionNames[i]>>

\* C17: a document is accepted only with the outline keyword of its header's
\* file type, and one with the other keyword is rejected with an error.
C17_OutlineKeywordOfFileType ==
    outcome.st # "none" =>
        /\ outcome.st = "Ok" => OutlineOfFileType(shape)
        /\ (/\ ~OutlineOfFileType(shape)
            /\ shape.holes >= 1
            /\ shape.notes_sections <= 1
            /\ trailing = <<>>) => outcome.st = "Err"

\* The end-to-end text: quoted system id, nothing after .END_PLACEMENT.
ScenarioText ==
    <<".", "HEADER", NL,
      "BOARD_FILE", SP, "3", ".0", SP, QT, "Gen", QT, SP, "1/1/00.00:00:00", SP, "1", NL,
      "sample", SP, "THOU", NL,
      ".END_", "HEADER", NL,
      ".", "BOARD_OUTLINE", SP, "MCAD", NL, "10.0", NL,
      "0", SP, "0.0", SP, "0.0", SP, "0.0", NL,
      "0", SP, "1.0", SP, "1.0", SP, "0.0", NL,
      ".END_", "BOARD_OUTLINE", NL,
      ".", "DRILLED_HOLES", NL,
      "10.0", SP, "5.0", SP, "5.0", SP, "PTH", SP, "BOARD", SP, "VIA", SP, "ECAD", NL,
      ".END_", "DRILLED_HOLES", NL,
      ".", "PLACEMENT", NL,
      "pkg", SP, "pn", SP, "C1", NL,
      "0.0", SP, "0.0", SP, "0.0", SP, "0.0", SP, "TOP", SP, "PLACED", NL,
      ".END_", "PLACEMENT">>

\* A document of one placement, one hole, no notes and a two-point outline.
MinimalDocument(r) ==
    /\ r.st = "Ok"
    /\ Len(r.doc.component_placements) = 1
    /\ Len(r.doc.drilled_holes) = 1
    /\ Len(r.doc.notes) = 0
    /\ Len(r.doc.outline.outline) = 2

\* C18: the minimal board text (BOARD_FILE header, two-point .BOARD_OUTLINE,
\* one hole, no .NOTES, one placement, nothing after .END_PLACEMENT) parses
\* into a document of 1 placement, 1 hole, 0 notes and a 2-point outline.
C18_MinimalBoardParses ==
    outcome.st # "none" =>
        /\ MinimalDocument(parse_board_or_panel(ScenarioText))
        /\ (/\ shape = [file_type |-> "BOARD_FILE", outline |-> "BOARD_OUTLINE",
                        holes |-> 1, notes_sections |-> 0, notes |-> 1, placements |-> 1]
            /\ trailing = <<>>) => MinimalDocument(outcome)

\* The section parser's result r holds k records and leaves nothing.
RecordsParsed(r, k) == r.st = "ok" /\ Len(r.val) = k /\ r.rest = <<>>

\* The records of r carry the position names, in order, in field f.
InInputOrder(r, f) == \A i \in DOMAIN r.val : r.val[i][f] = <<PositionNames[i]>>

OutlineParsed(r, k) == r.st = "ok" /\ Len(r.val.outline) = k /\ r.rest = <<>>

\* C19: every well-formed section parses into as many records as it has
\* record lines, in input order, and leaves an empty remainder: points of
\* an outline, holes, notes and placements.
C19_RecordCounts ==
    outcome.st # "none" =>
        /\ shape.holes >= 1 =>
               RecordsParsed(Run(parse_drilled_holes_section, DrilledHolesText(shape.holes)),
                             shape.holes)
        /\ shape.notes >= 1 =>
               RecordsParsed(Run(parse_notes_section, NotesSectionText(shape.notes)),
                             shape.notes)
        /\ InInputOrder(Run(parse_notes_section, NotesSectionText(shape.notes)), "text")
        /\ RecordsParsed(Run(parse_component_placement_section,
                             PlacementText(ShapePlacements(shape.placements))),
                         shape.placements)
        /\ InInputOrder(Run(parse_component_placement_section,
                            PlacementText(ShapePlacements(shape.placements))),
                        "package_name")
        /\ OutlineParsed(Run(parse_board_panel_outline, PrimaryOutlineText(shape.outline)), 2)

(***************************************************************************)
(* parse_library applied to a library document: a header of any file type  *)
(* and a body of .ELECTRICAL and .MECHANICAL sections in any order, each   *)
(* named by its position, with the same points and, for electrical         *)
(* sections, the same PROP records.                                        *)
(***************************************************************************)
MaxLibrarySections == 3
MaxPoints == 1
MaxProps == 2

\* The values that tell the PROP records of a section apart, by position.
PositionValues == <<"0.0", "1.0", "5.0", "10.0">>

PropLine(name, i) == <<"PROP", SP, name, SP, PositionValues[i], NL>>

LibraryComponentText(K, name, points, props) ==
    <<".", K, NL, name, SP, "pn", SP, "THOU", SP, "10.0", NL>>
        \o Repeat(PointLine("0", "0.0", "0.0"), points)
        \o (IF K = "ELECTRICAL" THEN Flatten([i \in DOMAIN props |-> PropLine(props[i], i)])
            ELSE <<>>)
        \o <<".END_", K, NL>>

LibraryShapeText(sh) ==
    LibraryHeaderText(sh.file_type)
        \o Flatten([i \in DOMAIN sh.body |->
                       LibraryComponentText(sh.body[i], PositionNames[i], sh.points, sh.props)])

LibraryShapes ==
    [file_type : {"LIBRARY_FILE", "BOARD_FILE", "PANEL_FILE"},
     body : SeqsUpTo({"ELECTRICAL", "MECHANICAL"}, MaxLibrarySections),
     points : 0..MaxPoints,
     props : SeqsUpTo({"P", "Q"}, MaxProps)]

InitLibraryDocument ==
    /\ sections = <<>>
    /\ holes = 0
    /\ trailing \in TrailingTexts
    /\ shape \in LibraryShapes
    /\ input = LibraryShapeText(shape) \o trailing
    /\ outcome = NotRun
    /\ scan = NoScan
    /\ NoDocuments
    /\ NoAssembly

ParseLibraryDocument ==
    /\ shape # NoShape
    /\ outcome = NotRun
    /\ outcome' = parse_library(input)
    /\ UNCHANGED <<sections, holes, trailing, shape, input, scan>>
    /\ UNCHANGED document_vars
    /\ UNCHANGED assembly_vars

SpecLibraryDocument == InitLibraryDocument /\ [][ParseLibraryDocument]_vars

\* C13: parse_library succeeds only on a header that declares LIBRARY_FILE;
\* a header declaring BOARD_FILE or PANEL_FILE gives an error and no Library.
C13_LibraryHeaderFileType ==
    (outcome.st # "none" /\ shape.file_type # "LIBRARY_FILE") =>
        outcome.st = "Err" /\ outcome.doc = NoDocument

\* A well-formed library text but for its BOARD_FILE header, refused with
\* the error placed at the start of the input.
C13_Witness ==
    /\ outcome.st = "Err"
    /\ outcome.rest = input
    /\ shape.file_type = "BOARD_FILE"
    /\ shape.body = <<"ELECTRICAL", "MECHANICAL">>
    /\ shape.points = 1
    /\ trailing = <<>>

\* A run of sections of one kind followed by a run of the other kind, which
\* may be empty.
TwoPhase(body) ==
    /\ body # <<>>
    /\ \E k \in DOMAIN body :
           /\ \A i \in DOMAIN body : i <= k => body[i] = body[1]
           /\ \A i \in DOMAIN body : i > k => body[i] # body[1]

\* components are the sections of kind K of the body, in document order.
KindInOrder(components, body, K) ==
    LET at == {i \in DOMAIN body : body[i] = K}
    IN  /\ Len(components) = Cardinality(at)
        /\ \A i \in at :
               components[Cardinality({m \in at : m <= i})].geometry_name
                   = <<PositionNames[i]>>

\* C14: a library body is accepted exactly when it is a run of .ELECTRICAL
\* sections followed by a run of .MECHANICAL sections or the reverse, any
\* other body gives an error, and whichever kind comes first the electrical
\* sections end up in electrical_components and the mechanical ones in
\* mechanical_components, each in document order.
C14_TwoPhaseScan ==
    (/\ outcome.st # "none"
     /\ shape.file_type = "LIBRARY_FILE"
     /\ shape.body # <<>>
     /\ trailing = <<>>) =>
        /\ outcome.st = "Ok" <=> TwoPhase(shape.body)
        /\ ~TwoPhase(shape.body) => outcome.st = "Err" /\ outcome.doc = NoDocument
        /\ outcome.st = "Ok" =>
               /\ KindInOrder(outcome.doc.electrical_components, shape.body, "ELECTRICAL")
               /\ KindInOrder(outcome.doc.mechanical_components, shape.body, "MECHANICAL")

\* An accepted library whose mechanical sections come first.
C14_Witness ==
    /\ outcome.st = "Ok"
    /\ shape.body = <<"MECHANICAL", "MECHANICAL", "ELECTRICAL">>
    /\ Len(outcome.doc.mechanical_components) = 2
    /\ outcome.doc.electrical_components[1].geometry_name = <<"c">>

\* C15: a component section without point records is rejected, so every
\* component of a parsed Library has a non-empty outline.
C15_ComponentsHaveOutlines ==
    outcome.st = "Ok" =>
        /\ shape.points >= 1
        /\ \A i \in DOMAIN outcome.doc.electrical_components :
               Len(outcome.doc.electrical_components[i].outline) >= 1
        /\ \A i \in DOMAIN outcome.doc.mechanical_components :
               Len(outcome.doc.mechanical_components[i].outline) >= 1

\* The position of the last PROP record of this name.
LastProp(props, name) ==
    CHOOSE i \in DOMAIN props :
        props[i] = <<name>> /\ \A j \in DOMAIN props : props[j] = <<name>> => j <= i

\* C16: the PROP records of an electrical component become a map whose keys
\* are the names that occur and whose value for a name is the value of its
\* last record; a repeated name is never an error.
C16_LastPropWins ==
    (outcome.st # "none" /\ shape.file_type = "LIBRARY_FILE" /\ trailing = <<>>) =>
        /\ TwoPhase(shape.body) => outcome.st = "Ok"
        /\ outcome.st = "Ok" =>
               \A c \in DOMAIN outcome.doc.electrical_components :
                   LET properties == outcome.doc.electrical_components[c].properties
                       names == [i \in DOMAIN shape.props |-> <<shape.props[i]>>]
                   IN  /\ DOMAIN properties = {names[i] : i \in DOMAIN names}
                       /\ \A n \in DOMAIN properties :
                              properties[n] = PositionValues[LastProp(names, n[1])]

\* An electrical component parsed from two PROP records of the same name.
C16_Witness ==
    /\ outcome.st = "Ok"
    /\ shape.props = <<"P", "P">>
    /\ shape.body = <<"ELECTRICAL">>
    /\ outcome.doc.electrical_components[1].properties[<<"P">>] = PositionValues[2]

(***************************************************************************)
(* Both reference checks, each applied to its own documents.               *)
(***************************************************************************)
InitReferences == InitLibraryRefs \/ InitPanelRefs

NextReferences ==
    \/ CheckLibraryReferences
    \/ CheckPanelReferences

SpecReferences == InitReferences /\ [][NextReferences]_vars

\* The list in every order.
Permuted(seq) ==
    {[i \in DOMAIN seq |-> seq[f[i]]] :
        f \in {g \in [DOMAIN seq -> DOMAIN seq] : \A i \in DOMAIN seq : \E j \in DOMAIN seq : g[j] = i}}

\* The list in every order, and with any one element given a second time.
Rearranged(seq) ==
    Permuted(seq) \cup {Append(p, p[i]) : p \in Permuted(seq), i \in DOMAIN seq}

\* Ok or Err, for each possible result of a check.
Outcomes(results) == {v.st : v \in results}

FileVersionTexts == {<<"1">>, <<"x">>, <<"1", SP>>, <<"1", SP, "x">>}

HeaderShapeText(sh) ==
    <<".", "HEADER", NL,
      sh.file_type, SP, "3", ".0", SP, "Gen", SP, "date", SP>> \o sh.file_version \o <<NL>>
        \o (IF sh.name_line THEN <<"brd", SP, "THOU", NL>> ELSE <<>>)
        \o <<".END_", "HEADER", NL>>

HeaderShapes ==
    [parser : {"parse_board_or_panel_header", "parse_library_header"},
     file_type : {"LIBRARY_FILE", "BOARD_FILE", "PANEL_FILE"},
     file_version : FileVersionTexts,
     name_line : BOOLEAN]

\* An IResult as an outcome: the value and the remainder, the error and its
\* position, or the panic.
ParserOutcome(r) ==
    CASE r.st = "ok" -> [st |-> "Ok", doc |-> r.val, rest |-> r.rest]
      [] r.st = "err" -> Failed(r.rest)
      [] r.st = "panic" -> Aborted

InitHeader ==
    /\ sections = <<>>
    /\ holes = 0
    /\ trailing \in {<<>>, PrimaryOutlineText("BOARD_OUTLINE")}
    /\ shape \in HeaderShapes
    /\ input = HeaderShapeText(shape) \o trailing
    /\ outcome = NotRun
    /\ scan = NoScan
    /\ NoDocuments
    /\ NoAssembly

ParseBoardOrPanelHeader ==
    /\ shape # NoShape
    /\ shape.parser = "parse_board_or_panel_header"
    /\ outcome = NotRun
    /\ outcome' = ParserOutcome(Run(parse_board_or_panel_header, input))
    /\ UNCHANGED <<sections, holes, trailing, shape, input, scan>>
    /\ UNCHANGED document_vars
    /\ UNCHANGED assembly_vars

ParseLibraryHeader ==
    /\ shape # NoShape
    /\ shape.parser = "parse_library_header"
    /\ outcome = NotRun
    /\ outcome' = ParserOutcome(parse_library_header(input))
    /\ UNCHANGED <<sections, holes, trailing, shape, input, scan>>
    /\ UNCHANGED document_vars
    /\ UNCHANGED assembly_vars

NextHeader ==
    \/ ParseBoardOrPanelHeader
    \/ ParseLibraryHeader

SpecHeader == InitHeader /\ [][NextHeader]_vars

\* C21: the header of a board or panel document, which is the header that
\* parse_board_or_panel_header returns, has file type BOARD_FILE or
\* PANEL_FILE: a header declaring LIBRARY_FILE is not accepted, even with a
\* line of board name and units.
C21_FileTypeIsBoardOrPanel ==
    (outcome.st = "Ok" /\ shape.parser = "parse_board_or_panel_header") =>
        outcome.doc.file_type \in {<<"BOARD_FILE">>, <<"PANEL_FILE">>}

\* C26: a header whose file version field is not a plain unsigned integer
\* makes either header parser return an error; the parse does not abort.
C26_BadFileVersionIsError ==
    (outcome.st # "none" /\ shape.file_version # <<"1">>) => outcome.st = "Err"

(***************************************************************************)
(* The section combinator applied to a keyword and an inner parser: the    *)
(* SECTION of one point of the combinator's own test, and NOTES with the   *)
(* notes parser.  The text may miss the start literal or carry another     *)
(* keyword, hold a malformed interior, and miss or mismatch the end        *)
(* literal.                                                                *)
(***************************************************************************)
SectionInner(K) == IF K = "SECTION" THEN point ELSE many1(ws(note))

SectionInterior(K, interior) ==
    CASE K = "SECTION" /\ interior = "good" -> <<"0", SP, "1.0", SP, "5.0", SP, "10.0", NL>>
      [] K = "SECTION" /\ interior = "bad" -> <<"0", SP, "1.0", NL>>
      [] K = "NOTES" /\ interior = "good" -> NoteLineAt(1) \o NoteLineAt(2)
      [] K = "NOTES" /\ interior = "bad" -> <<"1.0", SP, "x", NL>>

SectionShapeText(sh) ==
    sh.lead
        \o (CASE sh.start = "present" -> <<".", sh.keyword>>
              [] sh.start = "absent" -> <<>>
              [] sh.start = "other" -> <<".", "OTHER">>)
        \o <<NL>>
        \o SectionInterior(sh.keyword, sh.interior)
        \o (CASE sh.end = "present" -> <<".END_", sh.keyword, NL>>
              [] sh.end = "missing" -> <<>>
              [] sh.end = "mismatched" -> <<".END_", "OTHER", NL>>)

SectionShapes ==
    [keyword : {"SECTION", "NOTES"},
     lead : {<<>>, <<SP>>, <<NL, SP>>},
     start : {"present", "absent", "other"},
     interior : {"good", "bad"},
     end : {"present", "missing", "mismatched"}]

InitSection ==
    /\ sections = <<>>
    /\ holes = 0
    /\ trailing \in TrailingTexts
    /\ shape \in SectionShapes
    /\ input = SectionShapeText(shape) \o trailing
    /\ outcome = NotRun
    /\ scan = NoScan
    /\ NoDocuments
    /\ NoAssembly

ApplySection ==
    /\ shape # NoShape
    /\ outcome = NotRun
    /\ outcome' = ParserOutcome(Run(section(shape.keyword, SectionInner(shape.keyword)), input))
    /\ UNCHANGED <<sections, holes, trailing, shape, input, scan>>
    /\ UNCHANGED document_vars
    /\ UNCHANGED assembly_vars

SpecSection == InitSection /\ [][ApplySection]_vars

\* The start literal, a well-formed interior and the end literal.
WholeSection(sh) == sh.start = "present" /\ sh.interior = "good" /\ sh.end = "present"

\* C22: the section combinator succeeds exactly when, after optional leading
\* whitespace, the text starts with `.K`, the inner parser succeeds on what
\* follows and `.END_K` comes next; it then returns the inner parser's value
\* and leaves what follows the whitespace after the end literal.  Without
\* the start literal, with a failing interior or with a missing or
\* mismatched end literal it returns an error and nothing else.
C22_SectionCombinator ==
    outcome.st # "none" =>
        /\ outcome.st = "Ok" <=> WholeSection(shape)
        /\ outcome.st = "Ok" =>
               /\ outcome.doc = Run(SectionInner(shape.keyword),
                                    SectionInterior(shape.keyword, "good")).val
               /\ outcome.rest = trailing
        /\ ~WholeSection(shape) => outcome.st = "Err" /\ outcome.doc = NoDocument

\* A NOTES section of two notes after a line feed and a space, followed by
\* further text: both notes are returned and the further text is left.
C22_Witness ==
    /\ outcome.st = "Ok"
    /\ shape.keyword = "NOTES"
    /\ shape.lead = <<NL, SP>>
    /\ Len(outcome.doc) = 2
    /\ outcome.doc[2].text = <<"b">>
    /\ trailing # <<>>
    /\ outcome.rest = trailing

(***************************************************************************)
(* A .NOTES section without note records in a board or panel document.     *)
(***************************************************************************)
\* board.rs:64-66: the zero or one .NOTES sections, then .PLACEMENT.
notes_and_placement ==
    tuple(<<many_m_n(0, 1, parse_notes_section), parse_component_placement_section>>)

\* The text of the document from its first .NOTES section on.
NotesOnwardText(sh) ==
    Flatten([i \in 1..sh.notes_sections |-> NotesSectionText(sh.notes)])
        \o PlacementText(ShapePlacements(sh.placements))

\* The text from the end literal of an empty .NOTES section on: where the
\* first note of the section is looked for.
EmptyNotesInteriorText(sh) ==
    <<".END_", "NOTES", NL>> \o PlacementText(ShapePlacements(sh.placements))

\* A well-formed document but for its one .NOTES section, which is empty.
EmptyNotesDocument ==
    /\ OutlineOfFileType(shape)
    /\ shape.holes >= 1
    /\ shape.notes_sections = 1
    /\ shape.notes = 0
    /\ trailing = <<>>

\* C23: when the start literal of an optional section is there and its
\* interior is malformed (a .NOTES section without notes), the sections
\* fail with the interior parser's error at the interior's position, and
\* parse_board_or_panel returns that error; it is not a later section
\* parser that fails at the section's start keyword.
C23_InteriorErrorPropagates ==
    (outcome.st # "none" /\ EmptyNotesDocument) =>
        /\ Run(notes_and_placement, NotesOnwardText(shape)).st = "err"
        /\ Run(notes_and_placement, NotesOnwardText(shape)).rest = EmptyNotesInteriorText(shape)
        /\ outcome.st = "Err"
        /\ outcome.rest = EmptyNotesInteriorText(shape)

SeparatedKinds ==
    {"HEADER", "BOARD_OUTLINE", "DRILLED_HOLES", "NOTES", "PLACEMENT", "LIBRARY"}

\* The well-formed text of each kind, two records to a section.
SeparatedText(kind) ==
    CASE kind = "HEADER" -> HeaderText("BOARD_FILE", "brd")
      [] kind = "BOARD_OUTLINE" -> PrimaryOutlineText("BOARD_OUTLINE")
      [] kind = "DRILLED_HOLES" -> DrilledHolesText(2)
      [] kind = "NOTES" -> NotesSectionText(2)
      [] kind = "PLACEMENT" -> PlacementText(ShapePlacements(2))
      [] kind = "LIBRARY" ->
           LibraryHeaderText("LIBRARY_FILE")
               \o LibraryComponentText("ELECTRICAL", "a", 1, <<"P">>)
               \o LibraryComponentText("MECHANICAL", "b", 1, <<>>)

\* The parser of each kind of section.
SeparatedParser(kind) ==
    CASE kind = "HEADER" -> parse_board_or_panel_header
      [] kind = "BOARD_OUTLINE" -> parse_board_panel_outline
      [] kind = "DRILLED_HOLES" -> parse_drilled_holes_section
      [] kind = "NOTES" -> parse_notes_section
      [] kind = "PLACEMENT" -> parse_component_placement_section

\* What the parser of the kind returns for a text.
SeparatedOutcome(kind, text) ==
    IF kind = "LIBRARY" THEN parse_library(text)
    ELSE ParserOutcome(Run(SeparatedParser(kind), text))

WhitespaceAt(text) == {i \in DOMAIN text : text[i] \in {SP, NL}}

\* The place in the text of its k-th whitespace character.
SeparatorAt(text, k) ==
    CHOOSE i \in WhitespaceAt(text) : Cardinality({j \in WhitespaceAt(text) : j <= i}) = k

\* A separator written as it was, with a space before it, or as the other
\* whitespace character.
SeparatorRun(atom, by) ==
    CASE by = "same" -> <<atom>>
      [] by = "wider" -> <<SP, atom>>
      [] by = "other" -> IF atom = SP THEN <<NL>> ELSE <<SP>>

\* The text with its k-th whitespace character written as `by`, and `extra`
\* put after it.
Respaced(text, k, by, extra) ==
    SubSeq(text, 1, SeparatorAt(text, k) - 1)
        \o SeparatorRun(text[SeparatorAt(text, k)], by)
        \o extra
        \o SubSeq(text, SeparatorAt(text, k) + 1, Len(text))

SeparatorShapes ==
    UNION {[kind : {kind},
            at : 1..Cardinality(WhitespaceAt(SeparatedText(kind))),
            by : {"same", "wider", "other"},
            extra : {<<>>, <<"x", NL>>}] : kind \in SeparatedKinds}

InitSeparators ==
    /\ sections = <<>>
    /\ holes = 0
    /\ trailing = <<>>
    /\ shape \in SeparatorShapes
    /\ input = Respaced(SeparatedText(shape.kind), shape.at, shape.by, shape.extra)
    /\ outcome = NotRun
    /\ scan = NoScan
    /\ NoDocuments
    /\ NoAssembly

ParseSeparated ==
    /\ shape # NoShape
    /\ outcome = NotRun
    /\ outcome' = SeparatedOutcome(shape.kind, input)
    /\ UNCHANGED <<sections, holes, trailing, shape, input, scan>>
    /\ UNCHANGED document_vars
    /\ UNCHANGED assembly_vars

SpecSeparators == InitSeparators /\ [][ParseSeparated]_vars

\* The values of the unquoted string fields of what a kind parses into:
\* board_name, units, associated_part, package_name, part_number,
\* geometry_name.
BareFields(kind, doc) ==
    CASE kind = "HEADER" -> {doc.board_name, doc.units}
      [] kind = "DRILLED_HOLES" -> {doc[i].associated_part : i \in DOMAIN doc}
      [] kind = "PLACEMENT" ->
           {doc[i].package_name : i \in DOMAIN doc}
               \cup {doc[i].part_number : i \in DOMAIN doc}
      [] kind = "LIBRARY" ->
           UNION {{c.geometry_name, c.part_number, c.units} :
                     c \in Elements(doc.electrical_components)
                               \cup Elements(doc.mechanical_components)}
      [] OTHER -> {}

\* C24: the parsed value of an unquoted string field holds no space and no
\* line break: the field ends at the next whitespace, a line feed included.
C24_BareFieldsHoldNoWhitespace ==
    outcome.st = "Ok" =>
        \A field \in BareFields(shape.kind, outcome.doc) :
            \A i \in DOMAIN field : field[i] \notin {SP, NL}

\* C25: in a text that is accepted, writing one separator as a different
\* whitespace run gives a text that is accepted with the same parsed
\* values.
C25_SeparatorsAreFlexible ==
    (/\ outcome.st # "none"
     /\ shape.extra = <<>>
     /\ SeparatedOutcome(shape.kind, SeparatedText(shape.kind)).st = "Ok") =>
        outcome = SeparatedOutcome(shape.kind, SeparatedText(shape.kind))

(***************************************************************************)
(* lib.rs:83-91: the checks of parse_assembly applied to parsed documents: *)
(* a library, boards and, or not, a panel.                                 *)
(***************************************************************************)
InitAssemblyChecks ==
    /\ NoText
    /\ \E e \in SeqsUpTo(Names, MaxComponents) : library = LibraryDocument(e, <<>>)
    /\ board = NoDocument
    /\ \E ps \in PlacementLists :
           panel \in {NoDocument, BoardDocument("PANEL_FILE", <<"p">>, ps)}
    /\ \E ns \in SeqsUpTo(Names, MaxBoards), bp \in {<<>>, <<<<<<"a">>, <<"C1">>>>>>} :
           boards = [i \in DOMAIN ns |-> BoardDocument("BOARD_FILE", ns[i], bp)]
    /\ verdict = NotChecked
    /\ panel_file = NoFile
    /\ library_file = NoFile
    /\ board_files = <<>>
    /\ pc = "check_library"
    /\ result = NoResult

NextAssemblyChecks ==
    \/ CheckBoards
    \/ CheckPanel
    \/ ReturnAssembly

SpecAssemblyChecks == InitAssemblyChecks /\ [][NextAssemblyChecks]_vars

\* The placements of the document that are not board references and whose
\* package is no geometry of the library.
UnmatchedIn(doc) ==
    {i \in DOMAIN doc.component_placements :
        /\ doc.component_placements[i].reference_designator # <<"BOARD">>
        /\ doc.component_placements[i].package_name \notin GeometryNames}

EmptySectionLibraryText(K) ==
    LibraryHeaderText("LIBRARY_FILE") \o <<".", K, NL, ".END_", K, NL>>

\* C28: a LIBRARY_FILE header followed by no component section, or by text
\* that does not start with .ELECTRICAL or .MECHANICAL, gives an error, and
\* so does a section without a component record: every Library that
\* parse_library returns holds at least one component.
C28_NoEmptyLibrary ==
    outcome.st # "none" =>
        /\ (shape.file_type = "LIBRARY_FILE" /\ shape.body = <<>>) =>
               /\ outcome.st = "Err"
               /\ outcome.doc = NoDocument
               /\ outcome.rest = trailing
        /\ \A K \in {"ELECTRICAL", "MECHANICAL"} :
               parse_library(EmptySectionLibraryText(K) \o trailing).st = "Err"
        /\ outcome.st = "Ok" =>
               Len(outcome.doc.electrical_components)
                   + Len(outcome.doc.mechanical_components) >= 1

\* A LIBRARY_FILE header followed by text that is no component section,
\* refused with the error placed at that text.
C28_Witness ==
    /\ outcome.st = "Err"
    /\ shape.file_type = "LIBRARY_FILE"
    /\ shape.body = <<>>
    /\ trailing # <<>>
    /\ outcome.rest = trailing

(***************************************************************************)
(* parse_library and parse_board_or_panel followed parser by parser: the   *)
(* parsers of the sequence run one after the other on the text that        *)
(* remains, and a repetition runs its element parser once in each step.    *)
(***************************************************************************)
\* A scan under way: the values of the parsers that are through, the
\* elements of the repetition under way, the text that remains.
Scanning(of, header, electrical_first, parsers, rest) ==
    [of |-> of, header |-> header, electrical_first |-> electrical_first,
     parsers |-> parsers, vals |-> <<>>, acc |-> <<>>, rest |-> rest,
     st |-> "run", kind |-> "none"]

\* A scan stopped by the error or panic r.
Halted(sc, r) == [sc EXCEPT !.st = r.st, !.rest = r.rest, !.kind = r.kind]

\* The parser under way is through with value v, `rest` remaining.
Through(sc, v, rest) == [sc EXCEPT !.vals = Append(sc.vals, v), !.acc = <<>>, !.rest = rest]

\* As advance, with the text before the parser kept.
advance_nowhere(sc, r) == sc.rest

\* The text the next parser is given: what the result r left.
advance(sc, r) == r.rest

\* One turn of the loop of many0, many1 or many_m_n: r is the result of the
\* element parser on the text that remains.
repetition_step(sc, p, r) ==
    CASE r.st = "panic" -> Halted(sc, r)
      [] r.st = "err" ->
           IF Len(sc.acc) < p.min THEN Halted(sc, r) ELSE Through(sc, sc.acc, sc.rest)
      [] r.st = "ok" ->
           IF Len(r.rest) = Len(sc.rest) /\ ~(p.min = 1 /\ p.max = -1 /\ Len(sc.acc) = 0)
           THEN Halted(sc, Err(sc.rest, "Many"))
           ELSE [sc EXCEPT !.acc = Append(sc.acc, r.val), !.rest = advance(sc, r)]

\* A parser that is no repetition: r is its result on the text that remains.
parser_step(sc, r) ==
    IF r.st = "ok" THEN Through(sc, r.val, advance(sc, r)) ELSE Halted(sc, r)

\* The next step of parser p of the sequence.
scan_step(sc, p) ==
    IF p.c = "many"
    THEN IF p.max >= 0 /\ Len(sc.acc) >= p.max THEN Through(sc, sc.acc, sc.rest)
         ELSE The({repetition_step(sc, p, r) : r \in {Run(p.p, sc.rest)}})
    ELSE The({parser_step(sc, r) : r \in {Run(p, sc.rest)}})

\* The result of the sequence when the scan is over.
scan_result(sc) ==
    IF sc.st = "run" THEN Ok(sc.rest, sc.vals)
    ELSE [st |-> sc.st, rest |-> sc.rest, val |-> <<>>, kind |-> sc.kind]

\* The texts scanned.  parse_library_header rejects a header of another
\* file type whatever follows it, so one such text for each sequence of
\* sections is enough.
InitScan ==
    \/ /\ InitLibraryDocument
       /\ shape.file_type = "LIBRARY_FILE" \/ (shape.points = 0 /\ shape.props = <<>>)
    \/ InitBoardDocument

\* library.rs:19-36: the header, and the order of the two repetitions.
StartLibraryScan ==
    /\ scan = NoScan
    /\ outcome = NotRun
    /\ \E h \in {parse_library_header(input)} :
           scan' =
               IF h.st # "ok"
               THEN Halted(Scanning("parse_library", NoDocument, FALSE, <<>>, input), h)
               ELSE IF /\ ~starts_with(h.rest, <<".", "ELECTRICAL">>)
                       /\ ~starts_with(h.rest, <<".", "MECHANICAL">>)
               THEN Halted(Scanning("parse_library", NoDocument, FALSE, <<>>, input),
                           Err(h.rest, "Tag"))
               ELSE IF starts_with(h.rest, <<".", "ELECTRICAL">>)
               THEN Scanning("parse_library", h.val, TRUE,
                             <<many0(electrical_component), many0(mechanical_component)>>,
                             h.rest)
               ELSE Scanning("parse_library", h.val, FALSE,
                             <<many0(mechanical_component), many0(electrical_component)>>,
                             h.rest)
    /\ UNCHANGED <<sections, holes, trailing, shape, input, outcome>>
    /\ UNCHANGED document_vars
    /\ UNCHANGED assembly_vars

\* board.rs:50-67: the twelve parsers, from the start of the text.
StartBoardScan ==
    /\ scan = NoScan
    /\ outcome = NotRun
    /\ scan' = Scanning("parse_board_or_panel", NoDocument, FALSE,
                        board_panel_sections.ps, input)
    /\ UNCHANGED <<sections, holes, trailing, shape, input, outcome>>
    /\ UNCHANGED document_vars
    /\ UNCHANGED assembly_vars

ScanStep ==
    /\ scan # NoScan
    /\ outcome = NotRun
    /\ scan.st = "run"
    /\ Len(scan.vals) < Len(scan.parsers)
    /\ scan' = scan_step(scan, scan.parsers[Len(scan.vals) + 1])
    /\ UNCHANGED <<sections, holes, trailing, shape, input, outcome>>
    /\ UNCHANGED document_vars
    /\ UNCHANGED assembly_vars

\* library.rs:38-52 and board.rs:69-106: what the function makes of the
\* sequence's result.
ScanEnd ==
    /\ scan # NoScan
    /\ outcome = NotRun
    /\ scan.st # "run" \/ Len(scan.vals) = Len(scan.parsers)
    /\ outcome' = IF scan.of = "parse_library"
                  THEN library_result(scan.header, scan.electrical_first, scan_result(scan))
                  ELSE board_panel_result(scan_result(scan))
    /\ UNCHANGED <<sections, holes, trailing, shape, input, scan>>
    /\ UNCHANGED document_vars
    /\ UNCHANGED assembly_vars

NextScan ==
    \/ StartLibraryScan
    \/ StartBoardScan
    \/ ScanStep
    \/ ScanEnd

SpecScan == InitScan /\ [][NextScan]_vars

\* A call runs to its end: the steps of the scan are taken one after the
\* other until the function returns or aborts.
FairSpecScan == SpecScan /\ WF_vars(NextScan)

\* The element parsers of the repetitions: sections, and records in a
\* section.
RepeatedParsers ==
    {parse_other_outline, parse_routing_outline, parse_placement_outline,
     parse_routing_keepout, parse_via_keepout, parse_placement_keepout,
     parse_placement_group_area, parse_notes_section,
     electrical_component, mechanical_component,
     terminated(point, newline), drilled_hole, ws(note), component_placement,
     ws(point), electrical_property}

\* The places of the text where a line starts.
LineStarts(text) == {0} \cup {i \in DOMAIN text : text[i] = NL}

\* Wherever in the text a repeated parser succeeds, it consumes text.
RepeatedParsersConsume ==
    \A k \in LineStarts(input) : \A p \in RepeatedParsers :
        \A r \in {Run(p, Drop(input, k))} :
            r.st = "ok" => Len(r.rest) < Len(input) - k

\* A step that leaves a repetition under way consumed text, and no step
\* gives text back.
ConsumesOrEnds ==
    (scan # NoScan /\ scan.st = "run" /\ scan' # scan) =>
        /\ Len(scan'.rest) <= Len(scan.rest)
        /\ (scan'.st = "run" /\ Len(scan'.vals) = Len(scan.vals)) =>
               Len(scan'.rest) < Len(scan.rest)

\* What the function called returns for the whole text.
ScannedFunction ==
    IF scan.of = "parse_library" THEN parse_library(input) ELSE parse_board_or_panel(input)

\* C30: parsing terminates on every text: each turn of a repetition of
\* sections or of records consumes text or ends the repetition, the text
\* that remains never grows, and parse_library and parse_board_or_panel
\* come to their end, which is the result the function has for the text.
C30_ParsingTerminates ==
    /\ []((scan = NoScan /\ trailing = <<>>) => RepeatedParsersConsume)
    /\ [][ConsumesOrEnds]_vars
    /\ [](outcome.st # "none" => outcome = ScannedFunction)
    /\ <>(outcome.st # "none")

\* parse_library at its end after three turns of its repetitions on three
\* sections, the mechanical ones first.
C30_Witness ==
    /\ outcome.st = "Ok"
    /\ scan # NoScan
    /\ scan.of = "parse_library"
    /\ ~scan.electrical_first
    /\ Len(scan.vals) = 2
    /\ Len(scan.vals[1]) = 2
    /\ Len(scan.vals[2]) = 1
    /\ scan.rest = <<>>


====
